---- MODULE Spec2Model ----
(***************************************************************************)
(* The CircleCI source of trufflehog (pkg/sources/circleci/circleci.go):   *)
(* Source.Chunks lists the projects once, starts one task per project on   *)
(* an errgroup limited to `concurrency` running tasks, and each task walks *)
(* builds -> steps -> actions, sending one chunk per fetched action log to *)
(* chunksChan.  Failures after the project listing go to scanErrs.         *)
(***************************************************************************)
EXTENDS Integers, Sequences, FiniteSets, TLC

VARIABLES
    s,          \* the Source after Init: name, sourceId, jobId, verify, limit
    pc,         \* position of Chunks: "projects", "go", "wait", "done"
    ret,        \* what Chunks returned: "none" (not yet), "nil", "error"
    projs,      \* the decoded project list (Chunks' local `projects`)
    next,       \* index of the next project the range loop submits
    active,     \* tokens of the errgroup in use (closures started, token not yet back)
    task,       \* per project: the closure's locals and position
    chunksChan, \* the buffer of the output channel
    closed,     \* whether close(chunksChan) has been called
    scanErrs,   \* count, mu (holder or 0), errors
    scanned,    \* the scanned counter
    consumer,   \* the reader of chunksChan: "receiving" or "stopped"
    cancelled,  \* whether the caller cancelled ctx
    listFailed, \* history: the project listing call failed (world's view)
    listed,     \* history, per project: the actions its step listings named
    sent,       \* history, per project: the chunks chunksChan accepted
    nfetch,     \* history, per project: log bodies read successfully
    saw4xx,     \* history, per project (where recorded): a call of its walk got a 4xx status
    sanPc,      \* the sanitizer on its own: "off", "input", "once", "twice"
    sanIn,      \* the bytes given to removeCircleSha1Line
    sanOut,     \* removeCircleSha1Line(sanIn), once computed
    sanTwice    \* removeCircleSha1Line(sanOut), once computed

\* the variables of the sanitizer taken on its own
sanVars == <<sanPc, sanIn, sanOut, sanTwice>>

\* the variables of a run of Chunks
chunksVars == <<s, pc, ret, projs, next, active, task, chunksChan, closed, scanErrs,
                scanned, consumer, cancelled, listFailed, listed, sent, nfetch, saw4xx>>

vars == <<chunksVars, sanVars>>

(***************************************************************************)
(* Bounds of the model.                                                    *)
(***************************************************************************)
\* most projects the project listing returns
MaxProjects == 2
\* most builds a build listing returns
MaxBuilds == 2
\* most steps a step listing returns
MaxSteps == 2
\* most actions a step has
MaxActions == 2
\* most actions the remote tree holds in all
MaxLeaves == 3
\* largest concurrency limit given to Init
MaxConcurrency == 2
\* capacity of chunksChan's buffer
ChanCap == 1
\* most pieces (a newline, the marker, a single byte) a sanitizer input is made of
MaxPieces == 5

(***************************************************************************)
(* Byte strings are sequences of one-character strings.                    *)
(***************************************************************************)
NL == "\n"

Marker == <<"C", "I", "R", "C", "L", "E", "_", "S", "H", "A", "1", "=">>

\* bytes.Contains(line, sub)
Contains(line, sub) ==
    \E i \in 1..(Len(line) - Len(sub) + 1) : SubSeq(line, i, i + Len(sub) - 1) = sub

\* bytes.Split(input, "\n"): always at least one (possibly empty) segment
RECURSIVE Split(_)
Split(input) ==
    IF \A i \in 1..Len(input) : input[i] # NL
    THEN <<input>>
    ELSE LET i == CHOOSE j \in 1..Len(input) :
                      /\ input[j] = NL
                      /\ \A k \in 1..(j - 1) : input[k] # NL
         IN  <<SubSeq(input, 1, i - 1)>> \o Split(SubSeq(input, i + 1, Len(input)))

\* a join that puts nothing between the lines
RECURSIVE Join_NoSeparator(_)
Join_NoSeparator(lines) ==
    IF lines = <<>> THEN <<>> ELSE Head(lines) \o Join_NoSeparator(Tail(lines))

\* bytes.Join(lines, "\n")
RECURSIVE Join(_)
Join(lines) ==
    IF lines = <<>> THEN <<>>
    ELSE IF Len(lines) = 1 THEN lines[1]
    ELSE lines[1] \o <<NL>> \o Join(Tail(lines))

NoMarker(line) == ~Contains(line, Marker)

\* a filter that drops the first line with the marker and keeps the later ones
removeCircleSha1Line_FirstOnly(input) ==
    LET lines == Split(input)
        hit   == {i \in DOMAIN lines : ~NoMarker(lines[i])}
    IN  IF hit = {} THEN Join(lines)
        ELSE LET first == CHOOSE i \in hit : \A j \in hit : i <= j
             IN  Join(SubSeq(lines, 1, first - 1) \o SubSeq(lines, first + 1, Len(lines)))

removeCircleSha1Line(input) == Join(SelectSeq(Split(input), NoMarker))


(***************************************************************************)
(* The remote API: what the four GET calls may answer.  A response is a    *)
(* transport failure, or a status with a body; a JSON body is garbage, an  *)
(* array or an object (items: the array's elements, or the object's        *)
(* "steps").  Labels are fixed by position, shapes are free.               *)
(***************************************************************************)
Statuses == {200, 399, 400, 499, 500}

Transport == [kind |-> "transport", status |-> 0, body |-> [json |-> "none", items |-> <<>>]]

Http(status, body) == [kind |-> "http", status |-> status, body |-> body]

Garbage == [json |-> "garbage", items |-> <<>>]

Array(items) == [json |-> "array", items |-> items]

Object(steps) == [json |-> "object", items |-> steps]

ProjectAt(i) ==
    [VCS      |-> IF i % 2 = 1 THEN "github" ELSE "bitbucket",
     Username |-> "acct" \o ToString(i),
     RepoName |-> "repo" \o ToString(i)]

BuildAt(i) == [BuildNum |-> 43 - i]

ActionAt(i, j) ==
    [Index |-> j - 1, OutputURL |-> "https://out.test/" \o ToString(i) \o "/" \o ToString(j - 1)]

StepAt(i, n) == [Name |-> "step" \o ToString(i), Actions |-> [j \in 1..n |-> ActionAt(i, j)]]

ProjectLists == {[i \in 1..n |-> ProjectAt(i)] : n \in 0..MaxProjects}

BuildLists == {[i \in 1..n |-> BuildAt(i)] : n \in 0..MaxBuilds}

StepShapes == UNION {[1..n -> 0..MaxActions] : n \in 0..MaxSteps}

StepLists == {[i \in DOMAIN sh |-> StepAt(i, sh[i])] : sh \in StepShapes}

\* the log an action's OutputURL serves: the first action of a step prints
\* the environment, CIRCLE_SHA1 included; the later ones print their index
LogAt(j) ==
    IF j = 0 THEN <<"a", NL>> \o Marker \o <<"x", NL, "b">> ELSE <<"o", "k", ToString(j), NL>>

Responses(bodies) == {Transport} \cup {Http(st, b) : st \in Statuses, b \in bodies}

ProjectsResponses == Responses({Garbage, Object(<<>>)} \cup {Array(l) : l \in ProjectLists})

BuildsResponses == Responses({Garbage, Object(<<>>)} \cup {Array(l) : l \in BuildLists})

StepsResponses == Responses({Garbage, Array(<<>>)} \cup {Object(l) : l \in StepLists})

\* a log fetch can also fail while the body is read
LogResponses(act) ==
    {Transport} \cup
    {[kind |-> k, status |-> st, body |-> LogAt(act.Index)] : k \in {"http", "readfail"}, st \in Statuses}

(***************************************************************************)
(* The accessor functions, as functions of the response they receive.      *)
(* Each returns [val, err]; err = "" is Go's nil.                          *)
(***************************************************************************)
NoErr == ""

Ok(val) == [val |-> val, err |-> NoErr]

Fail(err) == [val |-> <<>>, err |-> err]

\* Source.projects without its status check
projects_NoStatusCheck(res) ==
    IF res.kind = "transport" THEN Fail("transport")
    ELSE IF res.body.json # "array" THEN Fail("decode")
    ELSE Ok(res.body.items)

\* Source.projects: client.Do, the 4xx check, the decode into []project
projects(res) ==
    IF res.kind = "transport" THEN Fail("transport")
    ELSE IF res.status > 399 /\ res.status < 500
         THEN Fail("invalid credentials, status " \o ToString(res.status))
    ELSE IF res.body.json # "array" THEN Fail("decode")
    ELSE Ok(res.body.items)

\* Source.buildsForProject: client.Do, then the decode into []build
buildsForProject(res) ==
    IF res.kind = "transport" THEN Fail("transport")
    ELSE IF res.body.json # "array" THEN Fail("decode")
    ELSE Ok(res.body.items)

\* Source.stepsForBuild: client.Do, then the decode into buildRes
stepsForBuild(res) ==
    IF res.kind = "transport" THEN Fail("transport")
    ELSE IF res.body.json # "object" THEN Fail("decode")
    ELSE Ok(res.body.items)

\* Source.chunkAction up to io.ReadAll: the log bytes, or the error
fetchLog(res) ==
    IF res.kind = "transport" THEN Fail("transport")
    ELSE IF res.kind = "readfail" THEN Fail("read")
    ELSE Ok(res.body)

linkURL(proj, bld) ==
    "https://app.circleci.com/pipelines/" \o proj.VCS \o "/" \o proj.Username
        \o "/" \o proj.RepoName \o "/" \o ToString(bld.BuildNum)

\* Source.chunkAction: the chunk built from the log bytes
makeChunk(src, proj, bld, stepName, logOutput) ==
    [SourceType |-> "SOURCE_TYPE_CIRCLECI",
     SourceName |-> src.name,
     SourceID   |-> src.sourceId,
     Data       |-> removeCircleSha1Line(logOutput),
     SourceMetadata |->
        [VcsType     |-> proj.VCS,
         Username    |-> proj.Username,
         Repository  |-> proj.RepoName,
         BuildNumber |-> bld.BuildNum,
         BuildStep   |-> stepName,
         Link        |-> linkURL(proj, bld)],
     Verify |-> src.verify]

\* the three fmt.Errorf wrappers of Chunks
buildsError(proj, err) == "error getting builds for project " \o proj.RepoName \o ": " \o err

stepsError(bld, err) == "error getting steps for build " \o ToString(bld.BuildNum) \o ": " \o err

actionError(act, err) ==
    "error chunking action {" \o ToString(act.Index) \o " " \o act.OutputURL \o "}: " \o err


(***************************************************************************)
(* Init: the Source as Source.Init leaves it, before Chunks is called.     *)
(***************************************************************************)
\* the (name, sourceId, jobId, verify) values a caller gives to Init
Configs == { [name |-> "circleci", sourceId |-> 7, jobId |-> 3, verify |-> TRUE] }

Concurrencies == 0..MaxConcurrency

\* Source.Init: the fields it sets; SetLimit(concurrency)
SourceInit(cfg, concurrency) ==
    [name |-> cfg.name, sourceId |-> cfg.sourceId, jobId |-> cfg.jobId,
     verify |-> cfg.verify, limit |-> concurrency]

NoProject == [VCS |-> "", Username |-> "", RepoName |-> ""]

\* a project's closure before jobPool.Go has started it
IdleTask ==
    [pc |-> "idle", proj |-> NoProject, builds |-> <<>>, steps |-> <<>>,
     chunk |-> <<>>, err |-> NoErr]

\* newScanErrors
newScanErrors == [count |-> 0, mu |-> 0, errors |-> <<>>]

\* the Source after Init and the locals of Chunks before it is called
Fresh ==
    /\ \E cfg \in Configs, c \in Concurrencies : s = SourceInit(cfg, c)
    /\ pc = "projects"
    /\ ret = "none"
    /\ projs = <<>>
    /\ next = 1
    /\ active = 0
    /\ task = <<>>
    /\ chunksChan = <<>>
    /\ closed = FALSE
    /\ scanErrs = newScanErrors
    /\ scanned = 0
    /\ consumer = "receiving"
    /\ cancelled = FALSE
    /\ listFailed = FALSE
    /\ listed = <<>>
    /\ sent = <<>>
    /\ nfetch = <<>>
    /\ saw4xx = <<>>

Init ==
    /\ Fresh
    /\ sanPc = "off"
    /\ sanIn = <<>>
    /\ sanOut = <<>>
    /\ sanTwice = <<>>

(***************************************************************************)
(* Chunks, the caller's goroutine.                                         *)
(***************************************************************************)
Is4xx(res) == res.kind # "transport" /\ res.status \in 400..499

\* the listing call failed: transport error, 4xx status or undecodable body
ListingFails(res) == res.kind = "transport" \/ Is4xx(res) \/ res.body.json # "array"

\* Chunks: s.projects(ctx), the error return, scanned and scanErrs
ListProjects ==
    /\ pc = "projects"
    /\ \E res \in ProjectsResponses :
         LET r == projects(res) IN
         /\ listFailed' = ListingFails(res)
         /\ IF r.err # NoErr
            THEN /\ pc' = "done"
                 /\ ret' = "error"
                 /\ UNCHANGED <<projs, task, listed, sent, nfetch, saw4xx>>
            ELSE /\ pc' = "go"
                 /\ ret' = "none"
                 /\ projs' = r.val
                 /\ task' = [i \in DOMAIN r.val |-> IdleTask]
                 /\ listed' = [i \in DOMAIN r.val |-> <<>>]
                 /\ sent' = [i \in DOMAIN r.val |-> <<>>]
                 /\ nfetch' = [i \in DOMAIN r.val |-> 0]
                 /\ saw4xx' = [i \in DOMAIN r.val |-> FALSE]
    /\ scanErrs' = newScanErrors
    /\ scanned' = 0
    /\ UNCHANGED <<s, next, active, chunksChan, consumer, cancelled>>
    /\ UNCHANGED <<closed, sanVars>>

\* a limit that lets one closure too many in
SlotFree_OffByOne(limit, held) == limit < 0 \/ held <= limit

\* a pool for which a limit of 0 means no limit
SlotFree_ZeroIsUnlimited(limit, held) == limit <= 0 \/ held < limit

\* a pool that hands out no token: only a group without limit starts closures
SlotFree_NoTokens(limit, held) == limit < 0

\* errgroup.Group.Go: a token is free (or there is no limit)
SlotFree(limit, held) == limit < 0 \/ held < limit

\* the closure reading the loop variable after the loop has moved on
Captured_LoopVar(list, i) == list[Len(list)]

\* the project the closure started for index i works on (proj := proj)
Captured(list, i) == list[i]

\* a loop that submits the projects from the last to the first
Go_Reversed ==
    /\ pc = "go"
    /\ next <= Len(projs)
    /\ SlotFree(s.limit, active)
    /\ active' = active + 1
    /\ task' = [task EXCEPT ![Len(projs) + 1 - next] =
                    [@ EXCEPT !.pc = "builds", !.proj = Captured(projs, Len(projs) + 1 - next)]]
    /\ next' = next + 1
    /\ UNCHANGED <<s, pc, ret, projs, chunksChan, scanErrs, scanned, consumer,
                   cancelled, listFailed, listed, sent, nfetch, saw4xx>>
    /\ UNCHANGED <<closed, sanVars>>

\* Chunks: one turn of the range loop, s.jobPool.Go(func() error {...})
Go ==
    /\ pc = "go"
    /\ next <= Len(projs)
    /\ SlotFree(s.limit, active)
    /\ active' = active + 1
    /\ task' = [task EXCEPT ![next] = [@ EXCEPT !.pc = "builds", !.proj = Captured(projs, next)]]
    /\ next' = next + 1
    /\ UNCHANGED <<s, pc, ret, projs, chunksChan, scanErrs, scanned, consumer,
                   cancelled, listFailed, listed, sent, nfetch, saw4xx>>
    /\ UNCHANGED <<closed, sanVars>>

\* Chunks: the range loop is over
GoDone ==
    /\ pc = "go"
    /\ next > Len(projs)
    /\ pc' = "wait"
    /\ UNCHANGED <<s, ret, projs, next, active, task, chunksChan, scanErrs, scanned,
                   consumer, cancelled, listFailed, listed, sent, nfetch, saw4xx>>
    /\ UNCHANGED <<closed, sanVars>>

\* a Wait that does not wait
Drained_NoWait == TRUE

\* errgroup.Group.Wait returns: every started closure has returned
Drained == \A p \in DOMAIN task : task[p].pc \in {"idle", "done"}

\* Chunks returning an error when any project failed
ChunksResult_FailOnAny(errs) == IF errs.count > 0 THEN "error" ELSE "nil"

\* what Chunks returns after the wait
ChunksResult(errs) == "nil"

\* a Chunks that closes the channel on return (defer close(chunksChan))
Wait_Closes ==
    /\ pc = "wait"
    /\ Drained
    /\ pc' = "done"
    /\ ret' = ChunksResult(scanErrs)
    /\ closed' = TRUE
    /\ UNCHANGED <<s, projs, next, active, task, chunksChan, scanErrs, scanned,
                   consumer, cancelled, listFailed, listed, sent, nfetch, saw4xx>>
    /\ UNCHANGED sanVars

\* Chunks: _ = s.jobPool.Wait(), the debug log, return nil
Wait ==
    /\ pc = "wait"
    /\ Drained
    /\ pc' = "done"
    /\ ret' = ChunksResult(scanErrs)
    /\ UNCHANGED <<s, projs, next, active, task, chunksChan, scanErrs, scanned,
                   consumer, cancelled, listFailed, listed, sent, nfetch, saw4xx>>
    /\ UNCHANGED <<closed, sanVars>>


(***************************************************************************)
(* The closure of one project, run by the errgroup.                        *)
(***************************************************************************)
\* the range loops over steps and actions: steps without actions are passed
RECURSIVE SkipEmpty(_)
SkipEmpty(steps) ==
    IF steps # <<>> /\ Head(steps).Actions = <<>> THEN SkipEmpty(Tail(steps)) ELSE steps

\* where the closure stands once `steps` are what is left of the current build
Walk(t, steps) ==
    LET st == SkipEmpty(steps) IN
    IF st # <<>> THEN [t EXCEPT !.steps = st, !.pc = "fetch"]
    ELSE IF Tail(t.builds) # <<>>
         THEN [t EXCEPT !.steps = <<>>, !.builds = Tail(t.builds), !.pc = "steps"]
         ELSE [t EXCEPT !.steps = <<>>, !.builds = <<>>, !.pc = "scanned"]

\* an error branch that returns without scanErrs.add
Abandon_NoAdd(t, err) ==
    [t EXCEPT !.err = err, !.builds = <<>>, !.steps = <<>>, !.pc = "scanned"]

\* the closure's error branch: scanErrs.add(err) is next, then return nil
\* (the loops are left: what remained of builds and steps is dead)
Abandon(t, err) ==
    [t EXCEPT !.err = err, !.builds = <<>>, !.steps = <<>>, !.pc = "add_count"]

\* the builds walked from the last to the first
AfterBuilds_Reversed(t, r) ==
    IF r.err # NoErr THEN Abandon(t, buildsError(t.proj, r.err))
    ELSE IF r.val = <<>> THEN [t EXCEPT !.pc = "scanned"]
    ELSE [t EXCEPT !.builds = [i \in DOMAIN r.val |-> r.val[Len(r.val) + 1 - i]], !.pc = "steps"]

\* after buildsForProject
AfterBuilds(t, r) ==
    IF r.err # NoErr THEN Abandon(t, buildsError(t.proj, r.err))
    ELSE IF r.val = <<>> THEN [t EXCEPT !.pc = "scanned"]
    ELSE [t EXCEPT !.builds = r.val, !.pc = "steps"]

\* the actions of every step walked from the last to the first
AfterSteps_ActionsReversed(t, r) ==
    IF r.err # NoErr THEN Abandon(t, stepsError(Head(t.builds), r.err))
    ELSE Walk(t, [i \in DOMAIN r.val |->
                     [r.val[i] EXCEPT !.Actions =
                         [j \in DOMAIN @ |-> r.val[i].Actions[Len(r.val[i].Actions) + 1 - j]]]])

\* after stepsForBuild
AfterSteps(t, r) ==
    IF r.err # NoErr THEN Abandon(t, stepsError(Head(t.builds), r.err))
    ELSE Walk(t, r.val)

\* after chunksChan <- chunk: chunkAction returns nil, the loops go on
AfterSend(t) ==
    Walk([t EXCEPT !.chunk = <<>>],
         <<[Head(t.steps) EXCEPT !.Actions = Tail(@)]>> \o Tail(t.steps))

\* a failed chunkAction that is noted and passed over (continue, not return)
AfterFetch_Continue(src, t, r) ==
    IF r.err # NoErr
    THEN [AfterSend(t) EXCEPT !.err = actionError(Head(Head(t.steps).Actions), r.err)]
    ELSE [t EXCEPT !.chunk = <<makeChunk(src, t.proj, Head(t.builds), Head(t.steps).Name, r.val)>>,
                   !.pc = "send"]

\* after the first half of chunkAction: the chunk is built and waits to be sent
AfterFetch(src, t, r) ==
    IF r.err # NoErr THEN Abandon(t, actionError(Head(Head(t.steps).Actions), r.err))
    ELSE [t EXCEPT !.chunk = <<makeChunk(src, t.proj, Head(t.builds), Head(t.steps).Name, r.val)>>,
                   !.pc = "send"]

\* the actions a step listing names, in listing order
RECURSIVE ActionsOf(_, _)
ActionsOf(bld, steps) ==
    IF steps = <<>> THEN <<>>
    ELSE [j \in DOMAIN Head(steps).Actions |->
             [BuildNum |-> bld.BuildNum, Name |-> Head(steps).Name, act |-> Head(steps).Actions[j]]]
         \o ActionsOf(bld, Tail(steps))

\* the number of actions a step listing names
RECURSIVE Leaves(_)
Leaves(steps) == IF steps = <<>> THEN 0 ELSE Len(Head(steps).Actions) + Leaves(Tail(steps))

\* the number of actions the step listings of all projects have named so far
RECURSIVE Total(_)
Total(l) == IF l = <<>> THEN 0 ELSE Len(Head(l)) + Total(Tail(l))

\* closure: builds, err := s.buildsForProject(ctx, proj)
TaskBuilds(p, rec) ==
    /\ p \in DOMAIN task
    /\ task[p].pc = "builds"
    /\ \E res \in BuildsResponses :
         /\ task' = [task EXCEPT ![p] = AfterBuilds(@, buildsForProject(res))]
         /\ saw4xx' = [saw4xx EXCEPT ![p] = @ \/ (rec /\ Is4xx(res))]
    /\ UNCHANGED <<s, pc, ret, projs, next, active, chunksChan, scanErrs, scanned,
                   consumer, cancelled, listFailed, listed, sent, nfetch>>
    /\ UNCHANGED <<closed, sanVars>>

\* closure: buildSteps, err := s.stepsForBuild(ctx, proj, bld)
TaskSteps(p, rec) ==
    /\ p \in DOMAIN task
    /\ task[p].pc = "steps"
    /\ \E res \in StepsResponses :
         LET r == stepsForBuild(res) IN
         /\ Leaves(res.body.items) + Total(listed) <= MaxLeaves
         /\ task' = [task EXCEPT ![p] = AfterSteps(@, r)]
         /\ saw4xx' = [saw4xx EXCEPT ![p] = @ \/ (rec /\ Is4xx(res))]
         /\ listed' = [listed EXCEPT ![p] =
                          IF r.err = NoErr THEN @ \o ActionsOf(Head(task[p].builds), r.val) ELSE @]
    /\ UNCHANGED <<s, pc, ret, projs, next, active, chunksChan, scanErrs, scanned,
                   consumer, cancelled, listFailed, sent, nfetch>>
    /\ UNCHANGED <<closed, sanVars>>

\* chunkAction: the GET of act.OutputURL, io.ReadAll, the chunk literal
TaskFetch(p, rec) ==
    /\ p \in DOMAIN task
    /\ task[p].pc = "fetch"
    /\ \E res \in LogResponses(Head(Head(task[p].steps).Actions)) :
         LET r == fetchLog(res) IN
         /\ task' = [task EXCEPT ![p] = AfterFetch(s, @, r)]
         /\ saw4xx' = [saw4xx EXCEPT ![p] = @ \/ (rec /\ Is4xx(res))]
         /\ nfetch' = [nfetch EXCEPT ![p] = IF r.err = NoErr THEN @ + 1 ELSE @]
    /\ UNCHANGED <<s, pc, ret, projs, next, active, chunksChan, scanErrs, scanned,
                   consumer, cancelled, listFailed, listed, sent>>
    /\ UNCHANGED <<closed, sanVars>>

\* a send on the channel can proceed: the buffer has room
CanSend(buf) == Len(buf) < ChanCap

\* a send that never blocks (select with default): a chunk that finds the
\* buffer full is dropped
TaskSend_NonBlocking(p) ==
    /\ p \in DOMAIN task
    /\ task[p].pc = "send"
    /\ chunksChan' = IF CanSend(chunksChan) THEN Append(chunksChan, task[p].chunk[1]) ELSE chunksChan
    /\ sent' = [sent EXCEPT ![p] = IF CanSend(chunksChan) THEN Append(@, task[p].chunk[1]) ELSE @]
    /\ task' = [task EXCEPT ![p] = AfterSend(@)]
    /\ UNCHANGED <<s, pc, ret, projs, next, active, scanErrs, scanned,
                   consumer, cancelled, listFailed, listed, nfetch, saw4xx>>
    /\ UNCHANGED <<closed, sanVars>>

\* chunkAction: chunksChan <- chunk; return nil
TaskSend(p) ==
    /\ p \in DOMAIN task
    /\ task[p].pc = "send"
    /\ CanSend(chunksChan)
    /\ chunksChan' = Append(chunksChan, task[p].chunk[1])
    /\ sent' = [sent EXCEPT ![p] = Append(@, task[p].chunk[1])]
    /\ task' = [task EXCEPT ![p] = AfterSend(@)]
    /\ UNCHANGED <<s, pc, ret, projs, next, active, scanErrs, scanned,
                   consumer, cancelled, listFailed, listed, nfetch, saw4xx>>
    /\ UNCHANGED <<closed, sanVars>>

\* an add that leaves the counter alone
AddCount_Skip(p) ==
    /\ p \in DOMAIN task
    /\ task[p].pc = "add_count"
    /\ task' = [task EXCEPT ![p].pc = "add_lock"]
    /\ UNCHANGED <<s, pc, ret, projs, next, active, chunksChan, scanErrs, scanned,
                   consumer, cancelled, listFailed, listed, sent, nfetch, saw4xx>>
    /\ UNCHANGED <<closed, sanVars>>

\* scanErrors.add: atomic.AddUint64(&s.count, 1)
AddCount(p) ==
    /\ p \in DOMAIN task
    /\ task[p].pc = "add_count"
    /\ scanErrs' = [scanErrs EXCEPT !.count = @ + 1]
    /\ task' = [task EXCEPT ![p].pc = "add_lock"]
    /\ UNCHANGED <<s, pc, ret, projs, next, active, chunksChan, scanned,
                   consumer, cancelled, listFailed, listed, sent, nfetch, saw4xx>>
    /\ UNCHANGED <<closed, sanVars>>

\* scanErrors.add: s.mu.Lock()
AddLock(p) ==
    /\ p \in DOMAIN task
    /\ task[p].pc = "add_lock"
    /\ scanErrs.mu = 0
    /\ scanErrs' = [scanErrs EXCEPT !.mu = p]
    /\ task' = [task EXCEPT ![p].pc = "add_append"]
    /\ UNCHANGED <<s, pc, ret, projs, next, active, chunksChan, scanned,
                   consumer, cancelled, listFailed, listed, sent, nfetch, saw4xx>>
    /\ UNCHANGED <<closed, sanVars>>

\* an error branch without its return: after add the closure goes on to
\* the scanned counter
AddAppend_FallThrough(p) ==
    /\ p \in DOMAIN task
    /\ task[p].pc = "add_append"
    /\ scanErrs' = [scanErrs EXCEPT !.errors = Append(@, task[p].err), !.mu = 0]
    /\ task' = [task EXCEPT ![p].pc = "scanned"]
    /\ UNCHANGED <<s, pc, ret, projs, next, active, chunksChan, scanned,
                   consumer, cancelled, listFailed, listed, sent, nfetch, saw4xx>>
    /\ UNCHANGED <<closed, sanVars>>

\* scanErrors.add: the append under the mutex and s.mu.Unlock(); what is
\* left of the closure is its return
AddAppend(p) ==
    /\ p \in DOMAIN task
    /\ task[p].pc = "add_append"
    /\ scanErrs' = [scanErrs EXCEPT !.errors = Append(@, task[p].err), !.mu = 0]
    /\ task' = [task EXCEPT ![p].pc = "return"]
    /\ UNCHANGED <<s, pc, ret, projs, next, active, chunksChan, scanned,
                   consumer, cancelled, listFailed, listed, sent, nfetch, saw4xx>>
    /\ UNCHANGED <<closed, sanVars>>

\* closure: atomic.AddUint64(&scanned, 1); the debug log that follows only
\* prints (whatever value of scanned it reads); what is left is the return
TaskScanned(p) ==
    /\ p \in DOMAIN task
    /\ task[p].pc = "scanned"
    /\ scanned' = scanned + 1
    /\ task' = [task EXCEPT ![p].pc = "return"]
    /\ UNCHANGED <<s, pc, ret, projs, next, active, chunksChan, scanErrs,
                   consumer, cancelled, listFailed, listed, sent, nfetch, saw4xx>>
    /\ UNCHANGED <<closed, sanVars>>

\* closure: return nil; the errgroup's deferred done() takes the token back
\* (<-g.sem), which lets a blocked jobPool.Go through
TaskReturn(p) ==
    /\ p \in DOMAIN task
    /\ task[p].pc = "return"
    /\ task' = [task EXCEPT ![p].pc = "wg_done"]
    /\ active' = active - 1
    /\ UNCHANGED <<s, pc, ret, projs, next, chunksChan, scanErrs, scanned,
                   consumer, cancelled, listFailed, listed, sent, nfetch, saw4xx>>
    /\ UNCHANGED <<closed, sanVars>>

\* the errgroup's done(): g.wg.Done(), which jobPool.Wait waits for
TaskWgDone(p) ==
    /\ p \in DOMAIN task
    /\ task[p].pc = "wg_done"
    /\ task' = [task EXCEPT ![p].pc = "done"]
    /\ UNCHANGED <<s, pc, ret, projs, next, active, chunksChan, scanErrs, scanned,
                   consumer, cancelled, listFailed, listed, sent, nfetch, saw4xx>>
    /\ UNCHANGED <<closed, sanVars>>

(***************************************************************************)
(* The caller's side: the reader of chunksChan and the owner of ctx.       *)
(***************************************************************************)
\* the consumer takes the oldest chunk
Receive ==
    /\ consumer = "receiving"
    /\ chunksChan # <<>>
    /\ chunksChan' = Tail(chunksChan)
    /\ UNCHANGED <<s, pc, ret, projs, next, active, task, scanErrs, scanned,
                   consumer, cancelled, listFailed, listed, sent, nfetch, saw4xx>>
    /\ UNCHANGED <<closed, sanVars>>

\* the caller cancels ctx while Chunks runs
Cancel ==
    /\ ~cancelled
    /\ pc \in {"go", "wait"}
    /\ cancelled' = TRUE
    /\ UNCHANGED <<s, pc, ret, projs, next, active, task, chunksChan, scanErrs, scanned,
                   consumer, listFailed, listed, sent, nfetch, saw4xx>>
    /\ UNCHANGED <<closed, sanVars>>

\* having cancelled, the caller stops reading the channel
ConsumerStop ==
    /\ cancelled
    /\ consumer = "receiving"
    /\ consumer' = "stopped"
    /\ UNCHANGED <<s, pc, ret, projs, next, active, task, chunksChan, scanErrs, scanned,
                   cancelled, listFailed, listed, sent, nfetch, saw4xx>>
    /\ UNCHANGED <<closed, sanVars>>

Next ==
    \/ ListProjects
    \/ Go
    \/ GoDone
    \/ Wait
    \/ \E p \in DOMAIN task : TaskBuilds(p, FALSE)
    \/ \E p \in DOMAIN task : TaskSteps(p, FALSE)
    \/ \E p \in DOMAIN task : TaskFetch(p, FALSE)
    \/ \E p \in DOMAIN task : TaskSend(p)
    \/ \E p \in DOMAIN task : AddCount(p)
    \/ \E p \in DOMAIN task : AddLock(p)
    \/ \E p \in DOMAIN task : AddAppend(p)
    \/ \E p \in DOMAIN task : TaskScanned(p)
    \/ \E p \in DOMAIN task : TaskReturn(p)
    \/ \E p \in DOMAIN task : TaskWgDone(p)
    \/ Receive

\* Chunks against a consumer that keeps reading and a caller that never cancels
Spec == Init /\ [][Next]_vars

(***************************************************************************)
(* The same program with the status of every response of a walk recorded   *)
(* in saw4xx, one project at a time (concurrency 1).                       *)
(***************************************************************************)
StatusInit == Init /\ s.limit = 1

StatusNext ==
    \/ ListProjects
    \/ Go
    \/ GoDone
    \/ Wait
    \/ \E p \in DOMAIN task : TaskBuilds(p, TRUE)
    \/ \E p \in DOMAIN task : TaskSteps(p, TRUE)
    \/ \E p \in DOMAIN task : TaskFetch(p, TRUE)
    \/ \E p \in DOMAIN task : TaskSend(p)
    \/ \E p \in DOMAIN task : AddCount(p)
    \/ \E p \in DOMAIN task : AddLock(p)
    \/ \E p \in DOMAIN task : AddAppend(p)
    \/ \E p \in DOMAIN task : TaskScanned(p)
    \/ \E p \in DOMAIN task : TaskReturn(p)
    \/ \E p \in DOMAIN task : TaskWgDone(p)
    \/ Receive

StatusSpec == StatusInit /\ [][StatusNext]_vars

(***************************************************************************)
(* The same program, one project at a time (concurrency 1), with a caller  *)
(* that may cancel ctx and then stop reading.  Goroutines that can run do  *)
(* run, HTTP calls return (the client has a timeout), and the consumer     *)
(* reads for as long as it is receiving.                                   *)
(***************************************************************************)
CancelInit == Init /\ s.limit = 1

CancelNext == Next \/ Cancel \/ ConsumerStop

Fairness ==
    /\ WF_vars(ListProjects)
    /\ WF_vars(Go)
    /\ WF_vars(GoDone)
    /\ WF_vars(Wait)
    /\ \A p \in 1..MaxProjects :
         /\ WF_vars(TaskBuilds(p, FALSE))
         /\ WF_vars(TaskSteps(p, FALSE))
         /\ WF_vars(TaskFetch(p, FALSE))
         /\ WF_vars(TaskSend(p))
         /\ WF_vars(AddCount(p))
         /\ SF_vars(AddLock(p))
         /\ WF_vars(AddAppend(p))
         /\ WF_vars(TaskScanned(p))
         /\ WF_vars(TaskReturn(p))
         /\ WF_vars(TaskWgDone(p))
    /\ WF_vars(Receive)

CancelSpec == CancelInit /\ [][CancelNext]_vars /\ Fairness

(***************************************************************************)
(* Chunks with a limit of at least one closure, a caller that never        *)
(* cancels and a consumer that keeps reading.  The run does not stop while *)
(* some goroutine can take a step (a call that returns, a send the buffer  *)
(* has room for, a receive, a free mutex): this is less than the fairness  *)
(* of every goroutine taken by itself.                                     *)
(***************************************************************************)
LiveInit == Init /\ s.limit >= 1

LiveSpec == LiveInit /\ [][Next]_vars /\ WF_vars(Next)

(***************************************************************************)
(* removeCircleSha1Line on its own: the bytes of a log are any             *)
(* concatenation of at most MaxPieces pieces, and the function is applied  *)
(* to them and then to its own result.  Chunks is not called.              *)
(***************************************************************************)
\* a newline, the marker, a byte outside the marker, the marker's first byte
Pieces == {<<NL>>, Marker, <<"a">>, <<"C">>}

RECURSIVE Concat(_)
Concat(ps) == IF ps = <<>> THEN <<>> ELSE Head(ps) \o Concat(Tail(ps))

\* the log bodies io.ReadAll may hand to removeCircleSha1Line
Inputs == {Concat(ps) : ps \in UNION {[1..n -> Pieces] : n \in 0..MaxPieces}}

SanInit ==
    /\ Fresh
    /\ s.limit = 1
    /\ sanPc = "input"
    /\ sanIn \in Inputs
    /\ sanOut = <<>>
    /\ sanTwice = <<>>

\* Data: removeCircleSha1Line(logOutput)
Sanitize ==
    /\ sanPc = "input"
    /\ sanOut' = removeCircleSha1Line(sanIn)
    /\ sanPc' = "once"
    /\ UNCHANGED <<sanIn, sanTwice, chunksVars>>

\* the function applied to its own result
SanitizeAgain ==
    /\ sanPc = "once"
    /\ sanTwice' = removeCircleSha1Line(sanOut)
    /\ sanPc' = "twice"
    /\ UNCHANGED <<sanIn, sanOut, chunksVars>>

SanNext == Sanitize \/ SanitizeAgain

SanSpec == SanInit /\ [][SanNext]_vars


(***************************************************************************)
(* Properties.                                                             *)
(***************************************************************************)
Tasks == DOMAIN task

Returned == pc = "done"

\* the closure of project p has finished its body (add or scanned is behind it)
Ended(p) == task[p].pc \in {"return", "wg_done", "done"}

\* the closure of project p runs and holds its token
Running(p) == task[p].pc \notin {"idle", "wg_done", "done"}

\* the closure of project p took its error branch
Failed(p) == task[p].err # NoErr

\* C1: if the project listing call fails (transport error, 4xx status or
\* undecodable body), Chunks returns an error, no closure is ever started and
\* no chunk is sent
C1_ListingFailureIsFatal ==
    listFailed =>
        /\ Returned
        /\ ret = "error"
        /\ task = <<>>
        /\ next = 1
        /\ active = 0
        /\ chunksChan = <<>>
        /\ sent = <<>>
        /\ scanErrs.count = 0

C1_Witness == listFailed /\ Returned

\* C2: when the project listing succeeded, Chunks returns nil whatever fails
\* later, also when every project's closure failed
C2_LaterFailuresReturnNil == (Returned /\ ~listFailed) => ret = "nil"

C2_Witness ==
    /\ Returned
    /\ ret = "nil"
    /\ Len(projs) = MaxProjects
    /\ \A p \in Tasks : Failed(p)
    /\ \E p \in Tasks : sent[p] # <<>>

\* the chunks of project p that carry the build, step and log of the actions
\* its step listings named, in that order
Emitted(p, n) ==
    /\ Len(sent[p]) = n
    /\ n <= Len(listed[p])
    /\ \A i \in 1..n :
         /\ sent[p][i].SourceMetadata.BuildNumber = listed[p][i].BuildNum
         /\ sent[p][i].SourceMetadata.BuildStep = listed[p][i].Name
         /\ sent[p][i].Data = removeCircleSha1Line(LogAt(listed[p][i].act.Index))

\* C3: when Chunks has returned, every project whose closure did not fail has
\* all the chunks of its listed actions emitted, every closure ran to its end,
\* and scanErrs holds exactly one error per failed project
C3_FailureIsolation ==
    (Returned /\ ~listFailed) =>
        /\ \A p \in Tasks : task[p].pc = "done"
        /\ \A p \in Tasks : ~Failed(p) => Emitted(p, Len(listed[p]))
        /\ Len(scanErrs.errors) = Cardinality({p \in Tasks : Failed(p)})
        /\ scanErrs.count = Cardinality({p \in Tasks : Failed(p)})
        /\ \A p \in Tasks : Failed(p) =>
              Cardinality({i \in DOMAIN scanErrs.errors : scanErrs.errors[i] = task[p].err})
                  = Cardinality({q \in Tasks : task[q].err = task[p].err})

\* one project failed at its build listing, the other emitted two chunks
C3_Witness ==
    /\ Returned
    /\ Len(projs) = 2
    /\ \E p, q \in Tasks :
         /\ Failed(p)
         /\ task[p].err = buildsError(projs[p], "transport")
         /\ ~Failed(q)
         /\ Len(sent[q]) = 2
    /\ Len(scanErrs.errors) = 1

\* C4: with a limit k >= 1, never more than k closures are between their
\* start and their return, and a closure starts only when fewer than k are
C4_ConcurrencyBound ==
    s.limit >= 1 => Cardinality({p \in Tasks : Running(p)}) <= s.limit

\* more projects than the limit: one runs, the next waits for its token
C4_Witness ==
    /\ s.limit >= 1
    /\ Len(projs) > s.limit
    /\ Cardinality({p \in Tasks : Running(p)}) = s.limit
    /\ \E p \in Tasks : task[p].pc = "idle"
    /\ \E p \in Tasks : task[p].pc = "send"

\* C5: every log body fetched successfully becomes exactly one chunk on the
\* channel: the chunks sent are the bodies fetched, less the one a closure is
\* sending now, none is left when the closure has returned, and they are the
\* chunks of distinct listed actions
C5_ExactlyOnce ==
    \A p \in Tasks :
        /\ Len(sent[p]) + Len(task[p].chunk) = nfetch[p]
        /\ task[p].chunk # <<>> <=> task[p].pc = "send"
        /\ Emitted(p, Len(sent[p]))
        /\ Returned => Len(sent[p]) = nfetch[p]

C5_Witness ==
    /\ Returned
    /\ \E p \in Tasks : nfetch[p] = 2 /\ Len(sent[p]) = 2 /\ Failed(p)

\* C6: Chunks returns only when every closure it started has returned, and
\* after it has returned no closure takes a step, no chunk is sent and no
\* error is added
C6_DrainingBarrier ==
    [][ /\ pc' = "done" => \A p \in DOMAIN task' : task'[p].pc = "done"
        /\ pc = "done" => (task' = task /\ sent' = sent /\ scanErrs' = scanErrs /\ scanned' = scanned)
      ]_vars

C6_Witness ==
    /\ Returned
    /\ Len(projs) = 2
    /\ scanErrs.errors # <<>>
    /\ \E p \in Tasks : sent[p] # <<>>
    /\ chunksChan # <<>>


\* where a chunk's build and step stand in their listings, and its action in
\* its step (the remote numbers builds downwards and names steps by position)
BuildPos(num) == 43 - num

StepPos(name) == CHOOSE i \in 1..MaxSteps : StepAt(i, 0).Name = name

\* the action whose log a chunk carries, read from the chunk's data
ActionPos(chunk) ==
    CHOOSE j \in 0..(MaxActions - 1) : chunk.Data = removeCircleSha1Line(LogAt(j))

\* where a sent chunk says it comes from: build, step and action
Key(p, i) ==
    <<BuildPos(sent[p][i].SourceMetadata.BuildNumber),
      StepPos(sent[p][i].SourceMetadata.BuildStep),
      ActionPos(sent[p][i])>>

Before(k, l) ==
    \/ k[1] < l[1]
    \/ k[1] = l[1] /\ k[2] < l[2]
    \/ k[1] = l[1] /\ k[2] = l[2] /\ k[3] < l[3]

\* C7: the chunks of one project reach the channel in listing order (build,
\* then step, then action), and a closure fetches its next action only when
\* the channel has accepted the chunk of the one before
C7_OrderWithinProject ==
    \A p \in Tasks :
        /\ Len(sent[p]) <= Len(listed[p])
        /\ \A i \in 1..(Len(sent[p]) - 1) : Before(Key(p, i), Key(p, i + 1))
        /\ nfetch[p] <= Len(sent[p]) + 1
        /\ task[p].pc = "fetch" => nfetch[p] = Len(sent[p])

\* three chunks of one project: actions 0 and 1 of one step of one build,
\* in that order, then a chunk of the next build
C7_Witness ==
    \E p \in Tasks :
        /\ Len(sent[p]) = 3
        /\ sent[p][1].SourceMetadata.BuildNumber = sent[p][2].SourceMetadata.BuildNumber
        /\ sent[p][1].SourceMetadata.BuildStep = sent[p][2].SourceMetadata.BuildStep
        /\ ActionPos(sent[p][1]) = 0
        /\ ActionPos(sent[p][2]) = 1
        /\ BuildPos(sent[p][3].SourceMetadata.BuildNumber)
              > BuildPos(sent[p][2].SourceMetadata.BuildNumber)

\* C8: once the caller has cancelled ctx, Chunks returns
C8_CancelUnwinds == cancelled ~> Returned

\* C9: a closure whose builds, steps or log call got a 4xx status fails: it
\* takes its error branch and derives nothing from that response
C9_ClientErrorFails == \A p \in Tasks : saw4xx[p] => Failed(p)

\* C10: every chunk sent carries the provider, account and repository of the
\* project listed at its closure's index, the build number and step name of
\* the action that produced it, the pipelines link of those same values, and
\* the name, id and verify flag Init was given
C10_Provenance ==
    \A p \in Tasks : \A i \in DOMAIN sent[p] :
        LET c == sent[p][i]
            m == c.SourceMetadata
        IN  /\ i <= Len(listed[p])
            /\ m.VcsType = projs[p].VCS
            /\ m.Username = projs[p].Username
            /\ m.Repository = projs[p].RepoName
            /\ m.BuildNumber = listed[p][i].BuildNum
            /\ m.BuildStep = listed[p][i].Name
            /\ m.Link = "https://app.circleci.com/pipelines/" \o projs[p].VCS \o "/"
                           \o projs[p].Username \o "/" \o projs[p].RepoName \o "/"
                           \o ToString(listed[p][i].BuildNum)
            /\ c.SourceName = s.name
            /\ c.SourceID = s.sourceId
            /\ c.Verify = s.verify
            /\ c.SourceType = "SOURCE_TYPE_CIRCLECI"

\* both projects have a chunk out while both closures are still running
C10_Witness ==
    /\ Len(projs) = 2
    /\ \A p \in Tasks : sent[p] # <<>> /\ Running(p)
    /\ sent[1][1].SourceMetadata.Link = "https://app.circleci.com/pipelines/github/acct1/repo1/42"
    /\ sent[2][1].SourceMetadata.Link = "https://app.circleci.com/pipelines/bitbucket/acct2/repo2/42"

\* the lines of a byte string, cut at every newline by position
LinesOf(x) ==
    LET nls == {i \in DOMAIN x : x[i] = NL}
        cut == [k \in 0..(Cardinality(nls) + 1) |->
                   IF k = 0 THEN 0
                   ELSE IF k = Cardinality(nls) + 1 THEN Len(x) + 1
                   ELSE CHOOSE i \in nls : Cardinality({j \in nls : j < i}) = k - 1]
    IN  [k \in 1..(Cardinality(nls) + 1) |-> SubSeq(x, cut[k - 1] + 1, cut[k] - 1)]

\* the lines of x without the marker, in the order x has them
KeptLines(x) ==
    LET ls   == LinesOf(x)
        keep == {i \in DOMAIN ls : ~Contains(ls[i], Marker)}
    IN  [k \in 1..Cardinality(keep) |->
            ls[CHOOSE i \in keep : Cardinality({j \in keep : j < i}) = k - 1]]

\* C11: removeCircleSha1Line applied to its own result changes nothing:
\* removeCircleSha1Line(removeCircleSha1Line(x)) = removeCircleSha1Line(x)
\* for every input x.
C11_Idempotent == sanPc = "twice" => sanTwice = sanOut

\* a result that lost two marker lines and kept text, sanitized once more
C11_Witness ==
    /\ sanPc = "twice"
    /\ Cardinality({i \in DOMAIN LinesOf(sanIn) : Contains(LinesOf(sanIn)[i], Marker)}) >= 2
    /\ sanOut # <<>>
    /\ sanOut # sanIn

\* C12 as stated: the lines of the output are exactly the input's lines
\* without the marker, in order, none containing the marker and none added.
C12_SameLines == sanPc \in {"once", "twice"} => LinesOf(sanOut) = KeptLines(sanIn)

\* C12: the output is the input's lines without the marker rejoined with
\* newlines: when a line is kept, the lines of the output are exactly the
\* kept lines in order (none with the marker, none added, empty leading and
\* trailing ones included); when every line holds the marker the output is
\* the empty byte string, whose one empty line is not a line of the input.
C12_FilterThenRejoin ==
    sanPc \in {"once", "twice"} =>
        IF KeptLines(sanIn) = <<>>
        THEN sanOut = <<>>
        ELSE LinesOf(sanOut) = KeptLines(sanIn)

\* a marker line dropped between an empty leading line and a trailing one
C12_Witness ==
    /\ sanPc = "once"
    /\ Len(LinesOf(sanIn)) = 3
    /\ LinesOf(sanIn)[1] = <<>>
    /\ Contains(LinesOf(sanIn)[2], Marker)
    /\ LinesOf(sanOut) = <<LinesOf(sanIn)[1], LinesOf(sanIn)[3]>>

\* what Chunks and its closures own: their positions, locals and results
CoreState == <<pc, ret, projs, next, active, task, scanErrs, scanned>>

\* C13: Chunks and its closures only send on chunksChan: no step closes the
\* channel, and a step of Chunks or of a closure leaves the buffer as it
\* was or puts exactly one chunk at its end; a chunk leaves the buffer only
\* in a step of the consumer, whatever the run's outcome.
C13_ProducerOnly ==
    [][/\ ~closed'
       /\ CoreState' # CoreState =>
             \/ chunksChan' = chunksChan
             \/ /\ Len(chunksChan') = Len(chunksChan) + 1
                /\ SubSeq(chunksChan', 1, Len(chunksChan)) = chunksChan]_vars

\* Chunks has returned after one project sent a chunk and another failed,
\* the last chunk still in the open channel
C13_Witness ==
    /\ pc = "done"
    /\ ret = "nil"
    /\ \E p, q \in Tasks : sent[p] # <<>> /\ Failed(q)
    /\ chunksChan # <<>>
    /\ ~closed

\* the errors a listing call and a log fetch can return
ListingErrs == {"transport", "decode"}

FetchErrs == {"transport", "read"}

\* the call at which the closure of project p failed
BuildsFailed(p) == \E e \in ListingErrs : task[p].err = buildsError(task[p].proj, e)

StepsFailed(p, b) == \E e \in ListingErrs : task[p].err = stepsError(BuildAt(b), e)

ActionFailed(p, a) == \E e \in FetchErrs : task[p].err = actionError(a, e)

\* what project p has emitted is the part of its listing before the failing call
PrefixBeforeFailure(p) ==
    /\ Emitted(p, Len(sent[p]))
    /\ task[p].chunk = <<>>
    /\ \/ BuildsFailed(p) /\ listed[p] = <<>> /\ sent[p] = <<>>
       \/ \E b \in 1..MaxBuilds :
             /\ StepsFailed(p, b)
             /\ Len(sent[p]) = Len(listed[p])
             /\ \A i \in DOMAIN listed[p] : BuildPos(listed[p][i].BuildNum) < b
       \/ /\ Len(sent[p]) < Len(listed[p])
          /\ ActionFailed(p, listed[p][Len(sent[p]) + 1].act)

\* C14: from its first failure on, the closure of a project makes no further
\* call (no build listing, step listing or log fetch) and sends no further
\* chunk: it only records the error and returns; the chunks it has sent are
\* exactly those of the actions listed before the failing call, in order.
C14_AbandonOnFirstFailure ==
    /\ [](\A p \in Tasks : Failed(p) => PrefixBeforeFailure(p))
    /\ [][\A p \in DOMAIN task :
             Failed(p) =>
                /\ task'[p].err = task[p].err
                /\ task'[p].pc \in {"add_count", "add_lock", "add_append", "return", "wg_done", "done"}
                /\ sent'[p] = sent[p]
                /\ listed'[p] = listed[p]
                /\ nfetch'[p] = nfetch[p]]_vars

\* a closure that sent the chunk of its first action, failed at the fetch
\* of the second and returned
C14_Witness ==
    \E p \in Tasks :
        /\ task[p].pc = "done"
        /\ Len(sent[p]) = 1
        /\ Len(listed[p]) >= 2
        /\ ActionFailed(p, listed[p][2].act)

\* C15: with a limit of at least 1, a finite tree of projects, builds, steps
\* and actions, calls that return and a consumer that takes every chunk,
\* Chunks returns in every fair run, whatever fails on the way.
C15_Terminates == <>Returned

\* Chunks has returned from a run with limit 2 where one project failed
\* after sending a chunk and the other sent all of its chunks
C15_Witness ==
    /\ Returned
    /\ s.limit = 2
    /\ \E p, q \in Tasks :
          /\ Failed(p)
          /\ sent[p] # <<>>
          /\ ~Failed(q)
          /\ sent[q] # <<>>

\* the closures that have incremented scanErrs.count
Counted == {p \in Tasks : task[p].pc \in {"add_lock", "add_append"} \/ (Ended(p) /\ Failed(p))}

\* the closures whose error is in scanErrs.errors
Appended == {p \in Tasks : Ended(p) /\ Failed(p)}

\* C16: every closure adds at most one error; scanErrs.count is never below
\* the length of scanErrs.errors (the counter goes up before the append);
\* the append is done by the one holder of the mutex and no add is lost
\* (count and list hold one entry per closure that got that far); when all
\* started closures are done, count = length of the list = number of
\* failed closures.
C16_AggregatorConsistent ==
    /\ scanErrs.count >= Len(scanErrs.errors)
    /\ scanErrs.count = Cardinality(Counted)
    /\ Len(scanErrs.errors) = Cardinality(Appended)
    /\ \A p \in Appended :
          Cardinality({i \in DOMAIN scanErrs.errors : scanErrs.errors[i] = task[p].err})
              = Cardinality({q \in Appended : task[q].err = task[p].err})
    /\ \A p \in Tasks : task[p].pc = "add_append" <=> scanErrs.mu = p
    /\ Cardinality({p \in Tasks : task[p].pc = "add_append"}) <= 1
    /\ (\A p \in Tasks : task[p].pc = "done") =>
          /\ scanErrs.count = Len(scanErrs.errors)
          /\ scanErrs.count = Cardinality({p \in Tasks : Failed(p)})

\* two closures are inside add at once: both have incremented the counter,
\* one holds the mutex, the other waits for it, nothing is appended yet
C16_Witness ==
    /\ scanErrs.count = 2
    /\ scanErrs.errors = <<>>
    /\ \E p, q \in Tasks : task[p].pc = "add_append" /\ task[q].pc = "add_lock"

\* the closure of project p has been started
Started(p) == task[p].pc # "idle"

\* C17: closures are started in the order the projects were listed: the
\* started ones are always the first ones of the list, and a step that
\* starts the closure of project j finds all earlier ones started.
\* (That closures end in any order and that chunks of two projects
\* interleave with a limit of 2 is shown by the reachable state below.)
C17_DispatchInListingOrder ==
    /\ [](\A p, q \in Tasks : (p < q /\ Started(q)) => Started(p))
    /\ [][\A j \in DOMAIN task :
             (~Started(j) /\ Started(j)') =>
                 /\ \A i \in 1..(j - 1) : Started(i)
                 /\ \A i \in DOMAIN task : i > j => ~Started(i)']_vars

\* with limit 2: the second project's closure is done while the first one's
\* still runs, and on the channel a chunk of the second project, the latest
\* sent, lies between a chunk the first project has sent and the next one
\* the first project is about to send
C17_Witness ==
    /\ s.limit >= 2
    /\ Len(projs) = 2
    /\ task[2].pc = "done"
    /\ task[1].pc = "send"
    /\ sent[1] # <<>>
    /\ chunksChan # <<>>
    /\ chunksChan[Len(chunksChan)].SourceMetadata.Repository = projs[2].RepoName

\* the closures that ended by incrementing scanned
Scanned == {p \in Tasks : Ended(p) /\ ~Failed(p)}

\* C18: a closure ends in exactly one of two ways: it adds one error to
\* scanErrs, or it increments scanned once, never both and never neither;
\* so scanned counts the closures that ended without error, the error count
\* those that took an error branch, and when Chunks returns after a listing
\* that succeeded, scanned + error count = number of listed projects.
C18_OutcomePartition ==
    /\ scanned = Cardinality(Scanned)
    /\ \A p \in Tasks :
          task[p].pc = "done" =>
              Cardinality({i \in DOMAIN scanErrs.errors : scanErrs.errors[i] = task[p].err})
                  = Cardinality({q \in Appended : task[q].err = task[p].err})
    /\ Scanned \cap Counted = {}
    /\ scanned + scanErrs.count <= Len(projs)
    /\ (Returned /\ ~listFailed) =>
          /\ Scanned \cup Appended = Tasks
          /\ scanned + scanErrs.count = Len(projs)
          /\ scanned + Len(scanErrs.errors) = Len(projs)

\* Chunks has returned: of two projects one ended in scanned, the other in add
C18_Witness ==
    /\ Returned
    /\ Len(projs) = 2
    /\ scanned = 1
    /\ scanErrs.count = 1
    /\ Len(scanErrs.errors) = 1

\* C19: when Init was given concurrency 0 and the listing returned at least
\* one project, the first jobPool.Go blocks for good: Chunks stays in its
\* loop at the first project, no closure starts, nothing is sent, no error
\* is recorded, scanned stays 0 and Chunks does not return.
C19_ZeroLimitBlocks ==
    (s.limit = 0 /\ pc # "projects" /\ ~listFailed /\ Len(projs) >= 1) =>
        /\ pc = "go"
        /\ ret = "none"
        /\ next = 1
        /\ active = 0
        /\ \A p \in Tasks : ~Started(p)
        /\ chunksChan = <<>>
        /\ \A p \in Tasks : sent[p] = <<>>
        /\ scanErrs = newScanErrors
        /\ scanned = 0

\* limit 0, two projects listed, Chunks inside the loop
C19_Witness == s.limit = 0 /\ pc = "go" /\ Len(projs) = 2 /\ ~ENABLED Go
====
